---- MODULE Spec2Model ----
(***************************************************************************)
(* Model of the snip workflow of src/Frontend/src-tauri/src/main.rs:       *)
(* the process-wide slot SNIP_STATE behind its Mutex, the four command     *)
(* handlers start_snip, get_snip_image, finish_snip and cancel_snip run    *)
(* by concurrent threads, the two windows ("main", "snip-overlay") they    *)
(* drive, and the crop arithmetic of finish_snip.                          *)
(*                                                                         *)
(* The "main" window is declared by the application configuration and no   *)
(* handler closes it, so get_webview_window("main") is Some throughout.    *)
(* Window-manager calls, screen capture and emit are external and may      *)
(* fail; each failure is a nondeterministic outcome of the step.           *)
(***************************************************************************)
EXTENDS Integers, Sequences, FiniteSets, TLC

VARIABLES SNIP_STATE, lockHolder, main_visible, overlay, pc, local, ret,
          calls, nextId, lastSlotOp, gone, takes, geom

vars == <<SNIP_STATE, lockHolder, main_visible, overlay, pc, local, ret,
          calls, nextId, lastSlotOp, gone, takes, geom>>

None == [none |-> TRUE]

(***************************************************************************)
(* f32 values.  A finite value is the exact rational n/d (d > 0); the      *)
(* other classes are +inf, -inf and NaN.  Every input the model draws is   *)
(* a dyadic rational and every scale factor it forms is dyadic (IsExact),  *)
(* so each f32 operation below is exact and rounding never occurs.         *)
(***************************************************************************)
Flt(n, d) == [cls |-> "num", n |-> n, d |-> d]
PInf == [cls |-> "pinf"]
NInf == [cls |-> "ninf"]
NaN == [cls |-> "nan"]

\* `k as f32` for a u32 k
FromU32(k) == Flt(k, 1)

\* a / b for finite a > 0 (a buffer dimension) and finite b (the viewport)
FDiv(a, b) ==
    IF b.n = 0 THEN PInf
    ELSE IF b.n > 0 THEN Flt(a.n * b.d, a.d * b.n)
    ELSE Flt(-(a.n * b.d), a.d * (-b.n))

\* a * s for finite a and s finite or +inf
FMul(a, s) ==
    IF s.cls = "pinf"
    THEN (IF a.n = 0 THEN NaN ELSE IF a.n > 0 THEN PInf ELSE NInf)
    ELSE Flt(a.n * s.n, a.d * s.d)

\* a - b for finite a, b
FSub(a, b) == Flt(a.n * b.d - b.n * a.d, a.d * b.d)

FLess(a, b) == a.n * b.d < b.n * a.d

\* f32::clamp: NaN stays NaN, otherwise the value is limited to [lo, hi].
\* The arguments are values: each is computed once, before the call.
FClamp(v0, lo0, hi0) ==
    CHOOSE r \in { (IF t.v.cls = "nan" THEN NaN
                    ELSE IF t.v.cls = "pinf" THEN t.hi
                    ELSE IF t.v.cls = "ninf" THEN t.lo
                    ELSE IF FLess(t.v, t.lo) THEN t.lo
                    ELSE IF FLess(t.hi, t.v) THEN t.hi
                    ELSE t.v) : t \in {[v |-> v0, lo |-> lo0, hi |-> hi0]} } :
       TRUE

\* `v as u32`: NaN is 0, negatives saturate to 0, the fraction is dropped.
\* The argument is always a clamp result, so it is NaN or finite.
AsU32(v0) ==
    CHOOSE k \in { (IF v.cls = "nan" THEN 0
                    ELSE IF v.n < 0 THEN 0
                    ELSE v.n \div v.d) : v \in {v0} } : TRUE

\* The arguments of finish_snip
Args(x, y, width, height, viewport_w, viewport_h) ==
    [x |-> x, y |-> y, width |-> width, height |-> height,
     viewport_w |-> viewport_w, viewport_h |-> viewport_h]

scale_x(W, a) == FDiv(FromU32(W), a.viewport_w)
scale_y(H, a) == FDiv(FromU32(H), a.viewport_h)

sx(W, a) == AsU32(FClamp(FMul(a.x, scale_x(W, a)), Flt(0, 1), FromU32(W)))
sy(H, a) == AsU32(FClamp(FMul(a.y, scale_y(H, a)), Flt(0, 1), FromU32(H)))
\* sw clamped to the whole width instead of the width left of sx
sw_full(W, a) ==
    AsU32(FClamp(FMul(a.width, scale_x(W, a)), Flt(0, 1), FromU32(W)))

sw(W, a) ==
    AsU32(FClamp(FMul(a.width, scale_x(W, a)), Flt(0, 1),
                 FSub(FromU32(W), FromU32(sx(W, a)))))
sh(H, a) ==
    AsU32(FClamp(FMul(a.height, scale_y(H, a)), Flt(0, 1),
                 FSub(FromU32(H), FromU32(sy(H, a)))))

\* CropRect rejecting only a crop that is empty in both axes
CropRect_and(W, H, a) ==
    IF a.width.n <= 0 \/ a.height.n <= 0
    THEN [err |-> "Invalid selection"]
    ELSE [err |-> IF sw(W, a) = 0 /\ sh(H, a) = 0
                  THEN "Selection too small" ELSE "",
          sx |-> sx(W, a), sy |-> sy(H, a),
          sw |-> sw(W, a), sh |-> sh(H, a)]

\* CropRect accepting a zero width or height (< for <=)
CropRect_strict(W, H, a) ==
    IF a.width.n < 0 \/ a.height.n < 0
    THEN [err |-> "Invalid selection"]
    ELSE [err |-> IF sw(W, a) = 0 \/ sh(H, a) = 0
                  THEN "Selection too small" ELSE "",
          sx |-> sx(W, a), sy |-> sy(H, a),
          sw |-> sw(W, a), sh |-> sh(H, a)]

\* The checks of finish_snip and the crop rectangle it computes for a
\* W x H snip
CropRect(W, H, a) ==
    IF a.width.n <= 0 \/ a.height.n <= 0
    THEN [err |-> "Invalid selection"]
    ELSE [err |-> IF sw(W, a) = 0 \/ sh(H, a) = 0
                  THEN "Selection too small" ELSE "",
          sx |-> sx(W, a), sy |-> sy(H, a),
          sw |-> sw(W, a), sh |-> sh(H, a)]

\* The scale W / v is a dyadic rational, hence an exact f32, or v is zero
IsExact(W, v) ==
    IF v.n = 0 THEN TRUE
    ELSE \E k \in {1, 2, 4, 8} :
            (W * v.d * k) % (IF v.n < 0 THEN -v.n ELSE v.n) = 0

IsExactArgs(W, H, a) == IsExact(W, a.viewport_w) /\ IsExact(H, a.viewport_h)

(***************************************************************************)
(* Captures, cropping and encoding.                                        *)
(***************************************************************************)
MaxCaptures == 2
\* The threads on which the frontend's invocations run
Threads == {"t1", "t2"}

\* RGBA8 bytes of a W x H screen, row-major
MkImage(W, H, seed) == [i \in 1..(W * H * 4) |-> (seed + 3 * i) % 256]

\* What screen.capture() can deliver: width, height and rgba bytes
Screens ==
    { [width |-> 2, height |-> 2, image |-> MkImage(2, 2, 0)],
      [width |-> 1, height |-> 2, image |-> MkImage(1, 2, 100)] }

\* struct SnipState, tagged with the identity of the capture it came from
SnipState(id, scr) ==
    [id |-> id, width |-> scr.width, height |-> scr.height,
     image |-> scr.image]

\* The row loop of finish_snip: rows sy .. sy+sh-1, each sw*4 bytes taken
\* at offset row*width*4 + sx*4 of the stored image
RECURSIVE CropRows(_, _, _)
CropRows(snip, r, row) ==
    IF row >= r.sy + r.sh THEN << >>
    ELSE LET start == row * snip.width * 4 + r.sx * 4
             end == start + r.sw * 4
         IN SubSeq(snip.image, start + 1, end) \o CropRows(snip, r, row + 1)

\* cropped stepping through the source by the width of the crop
cropped_packed(snip, r) == CropRows([snip EXCEPT !.width = r.sw], r, r.sy)

cropped(snip, r) == CropRows(snip, r, r.sy)

\* png::Encoder with Rgba / Eight on an in-memory Vec: write_header rejects
\* a zero dimension, write_image_data rejects a buffer of the wrong length
EncodePng(w, h, data) ==
    IF w = 0 \/ h = 0 \/ Len(data) # w * h * 4
    THEN [err |-> "encode error"]
    ELSE [err |-> "", width |-> w, height |-> h, data |-> data]

\* format!("data:image/png;base64,{}", b64)
DataUrl(png) == [prefix |-> "data:image/png;base64,", png |-> png]

\* Selections the overlay may send to finish_snip: a zero width, a
\* negative height, a crop
\* with a column offset that is clamped at the right edge, an origin on
\* the far corner, and half-pixel values with a row offset
FinishArgs ==
    { Args(Flt(0, 1), Flt(0, 1), Flt(0, 1), Flt(1, 1), Flt(2, 1), Flt(2, 1)),
      Args(Flt(0, 1), Flt(0, 1), Flt(1, 1), Flt(-1, 1), Flt(2, 1), Flt(2, 1)),
      Args(Flt(1, 1), Flt(0, 1), Flt(2, 1), Flt(2, 1), Flt(2, 1), Flt(2, 1)),
      Args(Flt(2, 1), Flt(2, 1), Flt(1, 1), Flt(1, 1), Flt(2, 1), Flt(2, 1)),
      Args(Flt(1, 2), Flt(1, 1), Flt(3, 2), Flt(2, 1), Flt(2, 1), Flt(2, 1)) }

(***************************************************************************)
(* The handlers.  pc[p] is the next step of thread p; ret[p] is the        *)
(* command it runs and, once returned, its result; calls[p] records the    *)
(* window-manager requests and snip-complete payloads of that command.     *)
(* nextId, lastSlotOp, gone and takes are history variables.               *)
(***************************************************************************)
NoCalls == [asked |-> {}, complete |-> << >>]

Ask(p, ops) == calls' = [calls EXCEPT ![p].asked = @ \cup ops]

\* The handler returns res (and the value val) to its caller
Return(p, res, val) ==
    /\ pc' = [pc EXCEPT ![p] = "idle"]
    /\ ret' = [ret EXCEPT ![p].res = res, ![p].val = val]
    /\ local' = [local EXCEPT ![p] = None]

Goto(p, label) == pc' = [pc EXCEPT ![p] = label]

Init ==
    /\ SNIP_STATE = None
    /\ lockHolder = "free"
    /\ main_visible = TRUE
    /\ overlay = "absent"
    /\ pc = [p \in Threads |-> "idle"]
    /\ local = [p \in Threads |-> None]
    /\ ret = [p \in Threads |-> [op |-> "none", res |-> "none", val |-> None]]
    /\ calls = [p \in Threads |-> NoCalls]
    /\ nextId = 1
    /\ lastSlotOp = "none"
    /\ gone = {}
    /\ takes = [i \in {} |-> 0]
    /\ geom = None

\* The frontend invokes a command on thread p
Invoke(p, op, label) ==
    /\ pc[p] = "idle"
    /\ pc' = [pc EXCEPT ![p] = label]
    /\ ret' = [ret EXCEPT ![p] = [op |-> op, res |-> "pending", val |-> None]]
    /\ calls' = [calls EXCEPT ![p] = NoCalls]
    /\ UNCHANGED <<SNIP_STATE, lockHolder, main_visible, overlay, local,
                   nextId, lastSlotOp, gone, takes, geom>>

\* start_snip is invoked while fewer than max captures were made or are
\* about to be made
InvokeStart(p, max) ==
    /\ nextId + Cardinality({q \in Threads : pc[q] \in {"s_hide", "s_capture"}})
          <= max
    /\ Invoke(p, "start", "s_hide")
invoke_start_snip(p) == InvokeStart(p, MaxCaptures)
invoke_log_frontend(p) == Invoke(p, "log", "l_print")
invoke_capture_fullscreen(p) == Invoke(p, "capture", "cf_capture")
invoke_get_snip_image(p) == Invoke(p, "query", "q_lock")
\* finish_snip is invoked with a selection of args whose scale factors are
\* exact on every screen; the arguments are the handler's first locals
InvokeFinish(p, args) ==
    /\ pc[p] = "idle"
    /\ pc' = [pc EXCEPT ![p] = "f_lock"]
    /\ ret' = [ret EXCEPT ![p] =
                 [op |-> "finish", res |-> "pending", val |-> None]]
    /\ calls' = [calls EXCEPT ![p] = NoCalls]
    /\ \E a \in { b \in args :
                      \A scr \in Screens :
                         IsExactArgs(scr.width, scr.height, b) } :
          local' = [local EXCEPT ![p] = a]
    /\ UNCHANGED <<SNIP_STATE, lockHolder, main_visible, overlay, nextId,
                   lastSlotOp, gone, takes, geom>>
invoke_finish_snip(p) == InvokeFinish(p, FinishArgs)
invoke_cancel_snip(p) == Invoke(p, "cancel", "c_clear")

\* main.show() and main.set_focus(), results ignored
RestoreMain(p, more) ==
    /\ \E ok \in BOOLEAN : main_visible' = (main_visible \/ ok)
    /\ Ask(p, {"main.show", "main.set_focus"} \cup more)

\* ---- log_frontend ----
log_frontend(p) ==
    /\ pc[p] = "l_print"
    /\ Return(p, "ok", None)
    /\ UNCHANGED <<SNIP_STATE, lockHolder, main_visible, overlay, calls,
                   nextId, lastSlotOp, gone, takes, geom>>

\* capture_fullscreen leaving its capture in the session slot
capture_fullscreen_store(p) ==
    /\ pc[p] = "cf_capture"
    /\ \/ /\ Return(p, "capture error", None)
          /\ UNCHANGED SNIP_STATE
       \/ \E scr \in Screens :
             LET png == EncodePng(scr.width, scr.height, scr.image)
             IN /\ SNIP_STATE' = SnipState(0, scr)
                /\ IF png.err # ""
                   THEN Return(p, png.err, None)
                   ELSE Return(p, "ok", DataUrl(png))
    /\ UNCHANGED <<lockHolder, main_visible, overlay, calls, nextId,
                   lastSlotOp, gone, takes, geom>>

\* ---- capture_fullscreen ----
\* Screen::from_point or capture fails, or the screen is encoded and
\* returned as a data URL
capture_fullscreen(p) ==
    /\ pc[p] = "cf_capture"
    /\ \/ Return(p, "capture error", None)
       \/ \E scr \in Screens :
             LET png == EncodePng(scr.width, scr.height, scr.image)
             IN IF png.err # ""
                THEN Return(p, png.err, None)
                ELSE Return(p, "ok", DataUrl(png))
    /\ UNCHANGED <<SNIP_STATE, lockHolder, main_visible, overlay, calls,
                   nextId, lastSlotOp, gone, takes, geom>>

\* start_hide giving up when main.hide() fails
start_hide_fatal(p) ==
    /\ pc[p] = "s_hide"
    /\ Ask(p, {"main.hide"})
    /\ \/ /\ main_visible' = FALSE
          /\ Goto(p, "s_capture")
          /\ UNCHANGED <<local, ret>>
       \/ /\ Return(p, "hide error", None)
          /\ UNCHANGED main_visible
    /\ UNCHANGED <<SNIP_STATE, lockHolder, overlay, nextId, lastSlotOp, gone,
                   takes, geom>>

\* ---- start_snip ----
start_hide(p) ==
    /\ pc[p] = "s_hide"
    /\ \E ok \in BOOLEAN : main_visible' = (main_visible /\ ~ok)
    /\ Ask(p, {"main.hide"})
    /\ Goto(p, "s_capture")
    /\ UNCHANGED <<SNIP_STATE, lockHolder, overlay, local, ret, nextId,
                   lastSlotOp, gone, takes, geom>>

start_capture(p) ==
    /\ pc[p] = "s_capture"
    /\ \/ /\ Return(p, "capture error", None)
          /\ UNCHANGED nextId
       \/ /\ \E scr \in Screens :
                local' = [local EXCEPT ![p] = SnipState(nextId, scr)]
          /\ nextId' = nextId + 1
          /\ Goto(p, "s_put")
          /\ UNCHANGED ret
    /\ UNCHANGED <<SNIP_STATE, lockHolder, main_visible, overlay, calls,
                   lastSlotOp, gone, takes, geom>>

\* start_put storing only into an empty slot
start_put_keep(p) ==
    /\ pc[p] = "s_put"
    /\ lockHolder = "free"
    /\ SNIP_STATE' = IF SNIP_STATE = None THEN local[p] ELSE SNIP_STATE
    /\ lastSlotOp' = "put"
    /\ local' = [local EXCEPT ![p] = None]
    /\ Goto(p, "s_check")
    /\ UNCHANGED <<lockHolder, main_visible, overlay, ret, calls, nextId,
                   gone, takes, geom>>

start_put(p) ==
    /\ pc[p] = "s_put"
    /\ lockHolder = "free"
    /\ SNIP_STATE' = local[p]
    /\ lastSlotOp' = "put"
    /\ local' = [local EXCEPT ![p] = None]
    /\ Goto(p, "s_check")
    /\ UNCHANGED <<lockHolder, main_visible, overlay, ret, calls, nextId,
                   gone, takes, geom>>

\* start_check sending every start to the builder
start_check_always(p) ==
    /\ pc[p] = "s_check"
    /\ Goto(p, "s_build")
    /\ UNCHANGED <<SNIP_STATE, lockHolder, main_visible, overlay, local, ret,
                   calls, nextId, lastSlotOp, gone, takes, geom>>

start_check(p) ==
    /\ pc[p] = "s_check"
    /\ Goto(p, IF overlay = "absent" THEN "s_build" ELSE "s_show")
    /\ UNCHANGED <<SNIP_STATE, lockHolder, main_visible, overlay, local, ret,
                   calls, nextId, lastSlotOp, gone, takes, geom>>

\* WebviewWindowBuilder::build: it fails, always so when a window labelled
\* "snip-overlay" exists by now, or it creates the overlay, visible
start_build(p) ==
    /\ pc[p] = "s_build"
    /\ Ask(p, {"overlay.build"})
    /\ \/ /\ Return(p, "overlay build error", None)
          /\ UNCHANGED overlay
       \/ /\ overlay = "absent"
          /\ overlay' = "visible"
          /\ Goto(p, "s_show")
          /\ UNCHANGED <<ret, local>>
    /\ UNCHANGED <<SNIP_STATE, lockHolder, main_visible, nextId, lastSlotOp,
                   gone, takes, geom>>

start_show(p) ==
    /\ pc[p] = "s_show"
    /\ IF overlay # "absent"
       THEN \/ /\ overlay' = "visible"
               /\ Ask(p, {"overlay.show", "overlay.set_focus"})
               /\ Return(p, "ok", None)
               /\ UNCHANGED main_visible
            \/ /\ RestoreMain(p, {"overlay.show"})
               /\ Return(p, "overlay show error", None)
               /\ UNCHANGED overlay
       ELSE /\ RestoreMain(p, {})
            /\ Return(p, "Overlay window missing", None)
            /\ UNCHANGED overlay
    /\ UNCHANGED <<SNIP_STATE, lockHolder, nextId, lastSlotOp, gone, takes,
                   geom>>

\* get_lock consuming the slot (take in place of as_ref)
get_lock_take(p) ==
    /\ pc[p] = "q_lock"
    /\ lockHolder = "free"
    /\ IF SNIP_STATE = None
       THEN /\ Return(p, "No snip state", None)
            /\ UNCHANGED <<lockHolder, SNIP_STATE>>
       ELSE /\ lockHolder' = p
            /\ SNIP_STATE' = None
            /\ local' = [local EXCEPT ![p] = SNIP_STATE]
            /\ Goto(p, "q_encode")
            /\ UNCHANGED ret
    /\ UNCHANGED <<main_visible, overlay, calls, nextId, lastSlotOp, gone,
                   takes, geom>>

\* ---- get_snip_image ----
\* SNIP_STATE.lock() and state.as_ref(); the guard lives to the return
get_lock(p) ==
    /\ pc[p] = "q_lock"
    /\ lockHolder = "free"
    /\ IF SNIP_STATE = None
       THEN /\ Return(p, "No snip state", None)
            /\ UNCHANGED lockHolder
       ELSE /\ lockHolder' = p
            /\ Goto(p, "q_encode")
            /\ UNCHANGED <<ret, local>>
    /\ UNCHANGED <<SNIP_STATE, main_visible, overlay, calls, nextId,
                   lastSlotOp, gone, takes, geom>>

\* get_encode returning without dropping the guard
get_encode_hold(p) ==
    /\ pc[p] = "q_encode"
    /\ LET png == EncodePng(SNIP_STATE.width, SNIP_STATE.height,
                            SNIP_STATE.image)
       IN IF png.err # ""
          THEN Return(p, png.err, None)
          ELSE Return(p, "ok", DataUrl(png))
    /\ UNCHANGED <<SNIP_STATE, lockHolder, main_visible, overlay, calls,
                   nextId, lastSlotOp, gone, takes, geom>>

get_encode(p) ==
    /\ pc[p] = "q_encode"
    /\ LET png == EncodePng(SNIP_STATE.width, SNIP_STATE.height,
                            SNIP_STATE.image)
       IN IF png.err # ""
          THEN Return(p, png.err, None)
          ELSE Return(p, "ok", DataUrl(png))
    /\ lockHolder' = "free"
    /\ UNCHANGED <<SNIP_STATE, main_visible, overlay, calls, nextId,
                   lastSlotOp, gone, takes, geom>>

\* finish_take putting the snip back when the selection is rejected
finish_take_restore(p) ==
    /\ pc[p] = "f_lock"
    /\ lockHolder = "free"
    /\ lastSlotOp' = "take"
    /\ IF SNIP_STATE = None
       THEN /\ Return(p, "No snip state", None)
            /\ UNCHANGED <<SNIP_STATE, lockHolder, gone, takes>>
       ELSE /\ gone' = gone \cup {SNIP_STATE.id}
            /\ takes' = [i \in DOMAIN takes \cup {SNIP_STATE.id} |->
                           IF i = SNIP_STATE.id
                           THEN (IF i \in DOMAIN takes THEN takes[i] + 1
                                 ELSE 1)
                           ELSE takes[i]]
            /\ LET r == CropRect(SNIP_STATE.width, SNIP_STATE.height,
                                 local[p])
               IN IF r.err # ""
                  THEN /\ Return(p, r.err, None)
                       /\ UNCHANGED <<SNIP_STATE, lockHolder>>
                  ELSE /\ lockHolder' = p
                       /\ SNIP_STATE' = None
                       /\ local' = [local EXCEPT ![p] =
                            [snip |-> SNIP_STATE, rect |-> r,
                             data_url |-> None]]
                       /\ Goto(p, "f_encode")
                       /\ UNCHANGED ret
    /\ UNCHANGED <<main_visible, overlay, calls, nextId, geom>>

\* finish_take reading the slot without emptying it (as_ref for take)
finish_take_peek(p) ==
    /\ pc[p] = "f_lock"
    /\ lockHolder = "free"
    /\ lastSlotOp' = "take"
    /\ SNIP_STATE' = SNIP_STATE
    /\ IF SNIP_STATE = None
       THEN /\ Return(p, "No snip state", None)
            /\ UNCHANGED <<lockHolder, gone, takes>>
       ELSE /\ gone' = gone \cup {SNIP_STATE.id}
            /\ takes' = [i \in DOMAIN takes \cup {SNIP_STATE.id} |->
                           IF i = SNIP_STATE.id
                           THEN (IF i \in DOMAIN takes THEN takes[i] + 1
                                 ELSE 1)
                           ELSE takes[i]]
            /\ LET r == CropRect(SNIP_STATE.width, SNIP_STATE.height,
                                 local[p])
               IN IF r.err # ""
                  THEN /\ Return(p, r.err, None)
                       /\ UNCHANGED lockHolder
                  ELSE /\ lockHolder' = p
                       /\ local' = [local EXCEPT ![p] =
                            [snip |-> SNIP_STATE, rect |-> r,
                             data_url |-> None]]
                       /\ Goto(p, "f_encode")
                       /\ UNCHANGED ret
    /\ UNCHANGED <<main_visible, overlay, calls, nextId, geom>>

\* ---- finish_snip ----
\* SNIP_STATE.lock(), state.take(), the selection checks and the crop
\* rectangle; the guard lives to the return
finish_take(p) ==
    /\ pc[p] = "f_lock"
    /\ lockHolder = "free"
    /\ lastSlotOp' = "take"
    /\ SNIP_STATE' = None
    /\ IF SNIP_STATE = None
       THEN /\ Return(p, "No snip state", None)
            /\ UNCHANGED <<lockHolder, gone, takes>>
       ELSE /\ gone' = gone \cup {SNIP_STATE.id}
            /\ takes' = [i \in DOMAIN takes \cup {SNIP_STATE.id} |->
                           IF i = SNIP_STATE.id
                           THEN (IF i \in DOMAIN takes THEN takes[i] + 1
                                 ELSE 1)
                           ELSE takes[i]]
            /\ LET r == CropRect(SNIP_STATE.width, SNIP_STATE.height,
                                 local[p])
               IN IF r.err # ""
                  THEN /\ Return(p, r.err, None)
                       /\ UNCHANGED lockHolder
                  ELSE /\ lockHolder' = p
                       /\ local' = [local EXCEPT ![p] =
                            [snip |-> SNIP_STATE, rect |-> r,
                             data_url |-> None]]
                       /\ Goto(p, "f_encode")
                       /\ UNCHANGED ret
    /\ UNCHANGED <<main_visible, overlay, calls, nextId, geom>>

finish_encode(p) ==
    /\ pc[p] = "f_encode"
    /\ LET r == local[p].rect
           png == EncodePng(r.sw, r.sh, cropped(local[p].snip, r))
       IN IF png.err # ""
          THEN /\ Return(p, png.err, None)
               /\ lockHolder' = "free"
          ELSE /\ local' = [local EXCEPT ![p].data_url = DataUrl(png)]
               /\ Goto(p, "f_emit")
               /\ UNCHANGED <<ret, lockHolder>>
    /\ UNCHANGED <<SNIP_STATE, main_visible, overlay, calls, nextId,
                   lastSlotOp, gone, takes, geom>>

\* finish_emit going on without sending snip-complete
finish_emit_skip(p) ==
    /\ pc[p] = "f_emit"
    /\ \/ /\ Return(p, "emit error", None)
          /\ lockHolder' = "free"
       \/ /\ Goto(p, "f_show")
          /\ UNCHANGED <<ret, local, lockHolder>>
    /\ UNCHANGED <<SNIP_STATE, main_visible, overlay, calls, nextId,
                   lastSlotOp, gone, takes, geom>>

finish_emit(p) ==
    /\ pc[p] = "f_emit"
    /\ \/ /\ Return(p, "emit error", None)
          /\ lockHolder' = "free"
          /\ UNCHANGED calls
       \/ /\ calls' = [calls EXCEPT
                         ![p].complete = Append(@, local[p].data_url)]
          /\ Goto(p, "f_show")
          /\ UNCHANGED <<ret, local, lockHolder>>
    /\ UNCHANGED <<SNIP_STATE, main_visible, overlay, nextId, lastSlotOp,
                   gone, takes, geom>>

finish_show(p) ==
    /\ pc[p] = "f_show"
    /\ RestoreMain(p, {})
    /\ Goto(p, "f_close")
    /\ UNCHANGED <<SNIP_STATE, lockHolder, overlay, local, ret, nextId,
                   lastSlotOp, gone, takes, geom>>

\* win.close() on the overlay if it exists, result ignored
CloseOverlay(p) ==
    IF overlay # "absent"
    THEN /\ \E ok \in BOOLEAN : overlay' = (IF ok THEN "absent" ELSE overlay)
         /\ Ask(p, {"overlay.close"})
    ELSE UNCHANGED <<overlay, calls>>

finish_close(p) ==
    /\ pc[p] = "f_close"
    /\ CloseOverlay(p)
    /\ Return(p, "ok", None)
    /\ lockHolder' = "free"
    /\ UNCHANGED <<SNIP_STATE, main_visible, nextId, lastSlotOp, gone, takes,
                   geom>>

\* cancel_clear leaving the slot as it is
cancel_clear_keep(p) ==
    /\ pc[p] = "c_clear"
    /\ lockHolder = "free"
    /\ lastSlotOp' = "clear"
    /\ Goto(p, "c_close")
    /\ UNCHANGED <<SNIP_STATE, lockHolder, main_visible, overlay, local, ret,
                   calls, nextId, gone, takes, geom>>

\* ---- cancel_snip ----
cancel_clear(p) ==
    /\ pc[p] = "c_clear"
    /\ lockHolder = "free"
    /\ SNIP_STATE' = None
    /\ lastSlotOp' = "clear"
    /\ gone' = IF SNIP_STATE = None THEN gone ELSE gone \cup {SNIP_STATE.id}
    /\ Goto(p, "c_close")
    /\ UNCHANGED <<lockHolder, main_visible, overlay, local, ret, calls,
                   nextId, takes, geom>>

\* cancel_close leaving the overlay alone
cancel_close_skip(p) ==
    /\ pc[p] = "c_close"
    /\ Goto(p, "c_emit")
    /\ UNCHANGED <<SNIP_STATE, lockHolder, main_visible, overlay, local, ret,
                   calls, nextId, lastSlotOp, gone, takes, geom>>

cancel_close(p) ==
    /\ pc[p] = "c_close"
    /\ CloseOverlay(p)
    /\ Goto(p, "c_emit")
    /\ UNCHANGED <<SNIP_STATE, lockHolder, main_visible, local, ret, nextId,
                   lastSlotOp, gone, takes, geom>>

cancel_emit(p) ==
    /\ pc[p] = "c_emit"
    /\ \/ /\ Return(p, "emit error", None)
          /\ UNCHANGED calls
       \/ /\ Ask(p, {"emit snip-cancel"})
          /\ Goto(p, "c_show")
          /\ UNCHANGED <<ret, local>>
    /\ UNCHANGED <<SNIP_STATE, lockHolder, main_visible, overlay, nextId,
                   lastSlotOp, gone, takes, geom>>

cancel_show(p) ==
    /\ pc[p] = "c_show"
    /\ RestoreMain(p, {})
    /\ Return(p, "ok", None)
    /\ UNCHANGED <<SNIP_STATE, lockHolder, overlay, nextId, lastSlotOp, gone,
                   takes, geom>>

start_snip(p) ==
    \/ start_hide(p) \/ start_capture(p) \/ start_put(p)
    \/ start_check(p) \/ start_build(p) \/ start_show(p)

get_snip_image(p) == get_lock(p) \/ get_encode(p)

finish_snip(p) ==
    \/ finish_take(p) \/ finish_encode(p) \/ finish_emit(p)
    \/ finish_show(p) \/ finish_close(p)

cancel_snip(p) ==
    \/ cancel_clear(p) \/ cancel_close(p) \/ cancel_emit(p) \/ cancel_show(p)

Next ==
    \E p \in Threads :
        \/ invoke_start_snip(p) \/ invoke_get_snip_image(p)
        \/ invoke_finish_snip(p) \/ invoke_cancel_snip(p)
        \/ invoke_log_frontend(p) \/ invoke_capture_fullscreen(p)
        \/ start_snip(p) \/ get_snip_image(p)
        \/ finish_snip(p) \/ cancel_snip(p)
        \/ log_frontend(p) \/ capture_fullscreen(p)

Spec == Init /\ [][Next]_vars

\* One step of whatever handler thread p runs
Step(p) ==
    \/ start_snip(p) \/ get_snip_image(p) \/ finish_snip(p) \/ cancel_snip(p)
    \/ log_frontend(p) \/ capture_fullscreen(p)

\* The four session handlers, with start_snip invoked at most
\* MaxFairCaptures times and finish_snip invoked with a selection it
\* rejects or one it accepts
MaxFairCaptures == 1
FairFinishArgs ==
    { Args(Flt(0, 1), Flt(0, 1), Flt(0, 1), Flt(1, 1), Flt(2, 1), Flt(2, 1)),
      Args(Flt(1, 1), Flt(0, 1), Flt(2, 1), Flt(2, 1), Flt(2, 1), Flt(2, 1)) }
invoke_start_snip_fair(p) == InvokeStart(p, MaxFairCaptures)
invoke_finish_snip_fair(p) == InvokeFinish(p, FairFinishArgs)

NextFair ==
    \E p \in Threads :
        \/ invoke_start_snip_fair(p) \/ invoke_get_snip_image(p)
        \/ invoke_finish_snip_fair(p) \/ invoke_cancel_snip(p)
        \/ start_snip(p) \/ get_snip_image(p)
        \/ finish_snip(p) \/ cancel_snip(p)

\* Every call into capture, encode, emit and the window manager returns,
\* and a thread waiting for the session lock is granted it eventually
SpecFair == Init /\ [][NextFair]_vars /\ \A p \in Threads : SF_vars(Step(p))

(***************************************************************************)
(* The crop arithmetic of finish_snip on full-size buffers: the inputs     *)
(* are drawn in the initial state and crop_rect applies the computation.   *)
(***************************************************************************)
CropDims == { <<1920, 1080>>, <<3840, 2160>> }
CropXs ==
    { Flt(-10, 1), Flt(0, 1), Flt(1, 2), Flt(100, 1), Flt(1919, 1),
      Flt(3839, 2), Flt(1920, 1), Flt(4000, 1) }
CropYs == { Flt(-5, 1), Flt(0, 1), Flt(100, 1), Flt(1079, 1), Flt(1080, 1) }
CropWs ==
    { Flt(-1, 1), Flt(0, 1), Flt(1, 2), Flt(1, 1), Flt(10, 1), Flt(200, 1),
      Flt(5000, 1) }
CropHs == { Flt(0, 1), Flt(1, 2), Flt(10, 1), Flt(150, 1), Flt(3000, 1) }
CropVws == { Flt(-1920, 1), Flt(0, 1), Flt(960, 1), Flt(1920, 1),
             Flt(3840, 1) }
CropVhs == { Flt(0, 1), Flt(540, 1), Flt(1080, 1), Flt(2160, 1) }

InitCrop ==
    /\ SNIP_STATE = None
    /\ lockHolder = "free"
    /\ main_visible = TRUE
    /\ overlay = "absent"
    /\ pc = [p \in Threads |-> "idle"]
    /\ local = [p \in Threads |-> None]
    /\ ret = [p \in Threads |-> [op |-> "none", res |-> "none", val |-> None]]
    /\ calls = [p \in Threads |-> NoCalls]
    /\ nextId = 1
    /\ lastSlotOp = "none"
    /\ gone = {}
    /\ takes = [i \in {} |-> 0]
    /\ \E dim \in CropDims, x \in CropXs, y \in CropYs, w \in CropWs,
          h \in CropHs, vw \in CropVws, vh \in CropVhs :
          /\ IsExactArgs(dim[1], dim[2], Args(x, y, w, h, vw, vh))
          /\ geom = [width |-> dim[1], height |-> dim[2],
                     a |-> Args(x, y, w, h, vw, vh), rect |-> None]

crop_rect ==
    /\ geom # None
    /\ geom.rect = None
    /\ geom' = [geom EXCEPT !.rect = CropRect(geom.width, geom.height, geom.a)]
    /\ UNCHANGED <<SNIP_STATE, lockHolder, main_visible, overlay, pc, local,
                   ret, calls, nextId, lastSlotOp, gone, takes>>

NextCrop == crop_rect

SpecCrop == InitCrop /\ [][NextCrop]_vars

(***************************************************************************)
(* Properties.                                                             *)
(***************************************************************************)
\* Thread p, running command op, returns to its caller in this step
Returns(p, op) == pc[p] # "idle" /\ pc'[p] = "idle" /\ ret[p].op = op

\* Thread p takes the step at label
Steps(p, label) == pc[p] = label /\ pc'[p] # label

Returned(p, op, res) ==
    pc[p] = "idle" /\ ret[p].op = op /\ ret[p].res = res

\* C1: whenever start_snip returns an error, the main window is visible
\* again (or at least was asked to show), no overlay window exists and
\* the session slot is empty.
C1_FailedStartLeavesIdle ==
    [][\A p \in Threads :
          (Returns(p, "start") /\ ret'[p].res # "ok") =>
             /\ main_visible' \/ "main.show" \in calls'[p].asked
             /\ overlay' = "absent"
             /\ SNIP_STATE' = None]_vars

\* C2: whenever finish_snip returns, whatever it returns, the overlay is
\* closed (or at least was asked to close).
C2_FinishAlwaysClosesOverlay ==
    [][\A p \in Threads :
          Returns(p, "finish") =>
             overlay' = "absent" \/ "overlay.close" \in calls'[p].asked]_vars

\* C3: a finish_snip whose take comes after a cancel's clear or an earlier
\* finish's take with no start's store in between, or before any store at
\* all, returns "No snip state" at once: it obtains nothing and emits
\* nothing.
C3_FinishAfterConsumeFails ==
    [][\A p \in Threads :
          (Steps(p, "f_lock") /\ lastSlotOp \in {"none", "take", "clear"}) =>
             /\ pc'[p] = "idle"
             /\ ret'[p].res = "No snip state"
             /\ calls'[p].complete = << >>
             /\ takes' = takes]_vars

\* A finish has failed with "No snip state" after a cancel cleared a
\* capture that no finish ever obtained
C3_Witness ==
    \E p \in Threads :
        /\ Returned(p, "finish", "No snip state")
        /\ lastSlotOp = "take"
        /\ gone # {}
        /\ DOMAIN takes = {}

\* C4: a capture removed from the slot by finish's take or cancel's clear
\* is never in the slot again, so no later query or finish sees it; and
\* no capture is obtained by more than one finish, also while two
\* finishes are in flight.
C4_ConsumedNeverSeenAgain ==
    /\ SNIP_STATE # None => SNIP_STATE.id \notin gone
    /\ \A i \in DOMAIN takes : takes[i] <= 1
    /\ \A p, q \in Threads :
          (p # q /\ {pc[p], pc[q]} \subseteq
                       {"f_encode", "f_emit", "f_show", "f_close"}) =>
             local[p].snip.id # local[q].snip.id

\* Two finishes went for the only capture ever stored: one obtained it
\* and succeeded, the other failed with "No snip state"
C4_Witness ==
    \E p, q \in Threads :
        /\ Returned(p, "finish", "ok")
        /\ Returned(q, "finish", "No snip state")
        /\ nextId = 2
        /\ takes = (1 :> 1)

\* The steps that capture the screen, encode a PNG, emit an event or call
\* the window manager
SlowSteps ==
    { "s_hide", "s_capture", "s_check", "s_build", "s_show", "q_encode",
      "f_encode", "f_emit", "f_show", "f_close", "c_close", "c_emit",
      "c_show" }

\* C5: no handler is at a capture, encode, emit or window step while it
\* holds the session lock.
C5_LockOnlyAcrossSlotAccess ==
    \A p \in Threads : lockHolder = p => pc[p] \notin SlowSteps

\* C6: no step of get_snip_image changes the slot; with a session present
\* it returns success with the PNG data URL of exactly the stored width,
\* height and bytes, and with the slot empty it returns "No snip state".
C6_QueryIsReadOnly ==
    [][\A p \in Threads :
          /\ (Steps(p, "q_lock") \/ Steps(p, "q_encode")) =>
                SNIP_STATE' = SNIP_STATE
          /\ Returns(p, "query") =>
                IF SNIP_STATE = None
                THEN ret'[p].res = "No snip state"
                ELSE /\ ret'[p].res = "ok"
                     /\ ret'[p].val.prefix = "data:image/png;base64,"
                     /\ ret'[p].val.png.width = SNIP_STATE.width
                     /\ ret'[p].val.png.height = SNIP_STATE.height
                     /\ ret'[p].val.png.data = SNIP_STATE.image]_vars

\* Two queries have returned the same image and the session is still there
C6_Witness ==
    \E p, q \in Threads :
        /\ p # q
        /\ Returned(p, "query", "ok")
        /\ Returned(q, "query", "ok")
        /\ ret[p].val = ret[q].val
        /\ SNIP_STATE # None
        /\ ret[p].val.png.data = SNIP_STATE.image

\* C7: cancel_snip never returns an error.
C7_CancelAlwaysSucceeds ==
    [][\A p \in Threads :
          Returns(p, "cancel") => ret'[p].res = "ok"]_vars

\* floor(v * W / vp) for a positive viewport vp, in integer arithmetic
FloorScaled(v, W, vp) == (v.n * W * vp.d) \div (v.d * vp.n)

ClampInt(k, lo, hi) == IF k < lo THEN lo ELSE IF k > hi THEN hi ELSE k

ExpOrigin(v, W, vp) == ClampInt(FloorScaled(v, W, vp), 0, W)

ExpExtent(v, e, W, vp) ==
    ClampInt(FloorScaled(e, W, vp), 0, W - ExpOrigin(v, W, vp))

ScenarioB ==
    Args(Flt(100, 1), Flt(100, 1), Flt(200, 1), Flt(150, 1),
         Flt(1920, 1), Flt(1080, 1))

\* C8: for a positive selection size and a positive viewport the crop
\* origin is trunc(clamp(x*W/vw, 0, W)), trunc(clamp(y*H/vh, 0, H)), the
\* crop size is clamp(trunc(w*W/vw), 0, W - sx) by the same in y, and the
\* crop lies inside the buffer; on 3840x2160 with viewport 1920x1080 the
\* selection (100,100,200,150) gives origin (200,200), size 400x300.
C8_CropRectangle ==
    (/\ geom # None
     /\ geom.rect # None
     /\ geom.a.width.n > 0 /\ geom.a.height.n > 0
     /\ geom.a.viewport_w.n > 0 /\ geom.a.viewport_h.n > 0) =>
        LET a == geom.a
            W == geom.width
            H == geom.height
            r == geom.rect
        IN /\ r.sx = ExpOrigin(a.x, W, a.viewport_w)
           /\ r.sy = ExpOrigin(a.y, H, a.viewport_h)
           /\ r.sw = ExpExtent(a.x, a.width, W, a.viewport_w)
           /\ r.sh = ExpExtent(a.y, a.height, H, a.viewport_h)
           /\ r.sx + r.sw <= W
           /\ r.sy + r.sh <= H
           /\ (W = 3840 /\ H = 2160 /\ a = ScenarioB) =>
                 (r.sx = 200 /\ r.sy = 200 /\ r.sw = 400 /\ r.sh = 300
                  /\ r.err = "")

\* The 2x scenario has been computed to its 400-pixel-wide crop
C8_Witness ==
    /\ geom # None
    /\ geom.rect # None
    /\ geom.width = 3840
    /\ geom.a = ScenarioB
    /\ geom.rect.sw = 400

\* The pixel origin and extent along one axis for any viewport value: a
\* zero viewport makes the scale infinite, a negative one negative
AxisOrigin(v, W, vp) ==
    IF vp.n > 0 THEN ExpOrigin(v, W, vp)
    ELSE IF vp.n = 0 THEN (IF v.n > 0 THEN W ELSE 0)
    ELSE (IF v.n < 0 THEN ClampInt((-(v.n) * W * vp.d) \div (v.d * (-(vp.n))),
                                   0, W)
          ELSE 0)

AxisExtent(v, e, W, vp) ==
    IF vp.n > 0 THEN ExpExtent(v, e, W, vp)
    ELSE IF vp.n = 0 THEN W - AxisOrigin(v, W, vp)
    ELSE 0

ScenarioD(x, y) ==
    Args(Flt(x, 1), Flt(y, 1), Flt(10, 1), Flt(10, 1),
         Flt(1920, 1), Flt(1080, 1))

\* C9: with a positive selection size, finish_snip's checks fail with
\* "Selection too small" exactly when the clamped pixel extent is zero in
\* some axis; on 1920x1080 at 1x the selection at (1919,1079) of size
\* 10x10 is a 1x1 crop and passes, the one at (1920,1080) fails.
C9_TooSmallIffEmpty ==
    (/\ geom # None
     /\ geom.rect # None
     /\ geom.a.width.n > 0 /\ geom.a.height.n > 0) =>
        LET a == geom.a
            W == geom.width
            H == geom.height
            r == geom.rect
        IN /\ (r.err = "Selection too small") <=>
                 \/ AxisExtent(a.x, a.width, W, a.viewport_w) = 0
                 \/ AxisExtent(a.y, a.height, H, a.viewport_h) = 0
           /\ r.err \in {"", "Selection too small"}
           /\ (W = 1920 /\ H = 1080 /\ a = ScenarioD(1919, 1079)) =>
                 (r.err = "" /\ r.sw = 1 /\ r.sh = 1)
           /\ (W = 1920 /\ H = 1080 /\ a = ScenarioD(1920, 1080)) =>
                 r.err = "Selection too small"

\* The selection at the last pixel has been computed to a 1x1 crop
C9_Witness ==
    /\ geom # None
    /\ geom.rect # None
    /\ geom.width = 1920
    /\ geom.a = ScenarioD(1919, 1079)
    /\ geom.rect.err = ""

\* Byte k of the crop r of snip, read straight from the stored image
CropByte(snip, r, k) ==
    LET row == r.sy + ((k - 1) \div (r.sw * 4))
        off == (k - 1) % (r.sw * 4)
    IN snip.image[(row * snip.width + r.sx) * 4 + off + 1]

\* C10: when finish_snip returns success, exactly one snip-complete was
\* emitted in that call and it carries the PNG of the crop, the main
\* window was asked to show and to focus, and the slot is empty; a finish
\* that returns "No snip state", "Invalid selection" or "Selection too
\* small" has emitted no snip-complete.
C10_FinishSuccessEmitsOnce ==
    [][\A p \in Threads :
          Returns(p, "finish") =>
             /\ ret'[p].res = "ok" =>
                   /\ Len(calls'[p].complete) = 1
                   /\ LET u == calls'[p].complete[1]
                          r == local[p].rect
                      IN /\ u.prefix = "data:image/png;base64,"
                         /\ u.png.width = r.sw
                         /\ u.png.height = r.sh
                         /\ Len(u.png.data) = r.sw * r.sh * 4
                         /\ \A k \in 1..Len(u.png.data) :
                               u.png.data[k] = CropByte(local[p].snip, r, k)
                   /\ {"main.show", "main.set_focus"} \subseteq
                         calls'[p].asked
                   /\ SNIP_STATE' = None
             /\ ret'[p].res \in {"No snip state", "Invalid selection",
                                 "Selection too small"} =>
                   calls'[p].complete = << >>]_vars

\* A finish has returned success after emitting one snip-complete
C10_Witness ==
    \E p \in Threads :
        /\ Returned(p, "finish", "ok")
        /\ Len(calls[p].complete) = 1
        /\ "main.show" \in calls[p].asked

\* C11: finish_snip with the slot empty returns "No snip state" whatever
\* the selection is; with a session present and a width or height that
\* is not positive it returns "Invalid selection"; in both cases it
\* returns at once with an error and has emitted nothing.
C11_FinishErrorOrder ==
    [][\A p \in Threads :
          Steps(p, "f_lock") =>
             LET a == local[p]
                 bad == a.width.n <= 0 \/ a.height.n <= 0
             IN /\ SNIP_STATE = None =>
                      (pc'[p] = "idle" /\ ret'[p].res = "No snip state")
                /\ (SNIP_STATE # None /\ bad) =>
                      (pc'[p] = "idle" /\ ret'[p].res = "Invalid selection")
                /\ (SNIP_STATE # None /\ ~bad) =>
                      ret'[p].res \notin {"No snip state",
                                          "Invalid selection"}
                /\ (SNIP_STATE = None \/ bad) =>
                      calls'[p].complete = << >>]_vars

\* One finish has failed on an empty slot, another on a bad selection
C11_Witness ==
    \E p, q \in Threads :
        /\ Returned(p, "finish", "Invalid selection")
        /\ Returned(q, "finish", "No snip state")

\* The steps at which a handler holds the session lock
HoldingSteps == { "q_encode", "f_encode", "f_emit", "f_show", "f_close" }

\* The steps at which a handler asks for the session lock
LockingSteps == { "s_put", "q_lock", "f_lock", "c_clear" }

\* The steps of a handler after its one access to the session lock
AfterLock ==
    HoldingSteps \cup { "s_check", "s_build", "s_show", "c_close", "c_emit",
                        "c_show" }

\* C12: with every external call returning and the lock granted fairly,
\* every invoked handler eventually returns; the lock is held only by a
\* handler past its single acquisition, never by one that asks for it or
\* has returned, and a handler that has asked for the lock once never asks
\* for it again before it returns.
C12_HandlersReturn ==
    /\ [](\A p \in Threads : lockHolder = p => pc[p] \in HoldingSteps)
    /\ [](lockHolder \in Threads \cup {"free"})
    /\ [][\A p \in Threads :
            /\ (lockHolder' = p /\ lockHolder # p) =>
                  (pc[p] \in LockingSteps /\ lockHolder = "free")
            /\ (pc[p] \in LockingSteps /\ pc'[p] # pc[p]) =>
                  pc'[p] \in AfterLock \cup {"idle"}
            /\ pc[p] \in AfterLock => pc'[p] \in AfterLock \cup {"idle"}]_vars
    /\ \A p \in Threads : (pc[p] # "idle") ~> (pc[p] = "idle")

\* One handler holds the lock while the other waits for it
C12_Witness ==
    \E p, q \in Threads :
        /\ lockHolder = p
        /\ pc[p] \in HoldingSteps
        /\ pc[q] \in LockingSteps

\* C13: when the show-and-focus step of start_snip fails, start_snip has
\* asked the main window to show and to focus and returns the error; and
\* when start_snip returns from that step with the slot populated, it
\* returns success, the overlay having been shown.
C13_ShowFailureRollsBack ==
    [][\A p \in Threads :
          Steps(p, "s_show") =>
             /\ ret'[p].res # "ok" =>
                   {"main.show", "main.set_focus"} \subseteq calls'[p].asked
             /\ SNIP_STATE' # None =>
                   (ret'[p].res = "ok" /\ overlay' = "visible")]_vars

\* C14: start_snip asks for the overlay to be built only when its check
\* found no overlay; a start_snip whose check finds the overlay goes
\* straight to showing it, leaving it as it is, and builds nothing.  The
\* overlay comes to exist only by a build step taken while none exists,
\* and a build step taken while one exists (the loser of two concurrent
\* starts) creates nothing and returns the build error.
C14_OverlayBuiltOnlyIfAbsent ==
    [][/\ \A p \in Threads :
            /\ Steps(p, "s_check") =>
                  /\ overlay' = overlay
                  /\ calls'[p] = calls[p]
                  /\ pc'[p] = (IF overlay = "absent" THEN "s_build"
                               ELSE "s_show")
            /\ (Steps(p, "s_build") /\ overlay # "absent") =>
                  /\ overlay' = overlay
                  /\ pc'[p] = "idle"
                  /\ ret'[p].res = "overlay build error"
            /\ "overlay.build" \in calls'[p].asked =>
                  (Steps(p, "s_build") \/ "overlay.build" \in calls[p].asked)
       /\ (overlay = "absent" /\ overlay' # "absent") =>
             \E p \in Threads : Steps(p, "s_build")]_vars

\* A start_snip found the overlay of an earlier start_snip, built nothing
\* and returned success
C14_Witness ==
    \E p \in Threads :
        /\ Returned(p, "start", "ok")
        /\ "overlay.build" \notin calls[p].asked
        /\ overlay = "visible"

\* C15: the store step of start_snip replaces whatever the slot holds by
\* the capture of that start_snip, whole: after the step the slot holds
\* the width, the height and the pixels of that one capture, so after two
\* stores with no take or clear between them the slot holds the capture
\* stored last.  In every state the slot is empty or holds the width,
\* height and pixels of one screen capture together.
C15_LastStoreWins ==
    /\ [](SNIP_STATE # None =>
             \E scr \in Screens :
                 /\ SNIP_STATE.width = scr.width
                 /\ SNIP_STATE.height = scr.height
                 /\ SNIP_STATE.image = scr.image)
    /\ [][\A p \in Threads :
            Steps(p, "s_put") =>
               /\ local[p] # None
               /\ SNIP_STATE' = local[p]
               /\ SNIP_STATE'.id < nextId
               /\ lockHolder = "free" /\ lockHolder' = "free"]_vars

\* Two concurrent starts have both stored with no take or clear at all,
\* the start that captured first storing last: the slot holds its capture
C15_Witness ==
    /\ gone = {}
    /\ nextId = 3
    /\ lastSlotOp = "put"
    /\ \A p \in Threads :
          ret[p].op = "start" /\ pc[p] \notin {"s_hide", "s_capture", "s_put"}
    /\ SNIP_STATE # None
    /\ SNIP_STATE.id = 1

\* The steps of get_snip_image, log_frontend and capture_fullscreen
ReadOnlySteps == { "q_lock", "q_encode", "l_print", "cf_capture" }

\* C16: the slot goes from empty to populated only by the store step of a
\* start_snip, and from populated to empty only by the take of a
\* finish_snip or the clear of a cancel_snip; no other step changes what
\* it holds.  No step of get_snip_image, log_frontend or
\* capture_fullscreen changes the slot, the overlay or the main window.
C16_SlotLifecycle ==
    [][/\ (SNIP_STATE = None /\ SNIP_STATE' # None) =>
             \E p \in Threads : Steps(p, "s_put")
       /\ (SNIP_STATE # None /\ SNIP_STATE' = None) =>
             \E p \in Threads : Steps(p, "f_lock") \/ Steps(p, "c_clear")
       /\ SNIP_STATE' # SNIP_STATE =>
             \E p \in Threads :
                 pc[p] \in {"s_put", "f_lock", "c_clear"} /\ pc'[p] # pc[p]
       /\ \A p \in Threads :
             (pc[p] \in ReadOnlySteps /\ pc'[p] # pc[p]) =>
                /\ SNIP_STATE' = SNIP_STATE
                /\ overlay' = overlay
                /\ main_visible' = main_visible]_vars

\* log_frontend and capture_fullscreen have returned while a session is
\* open: the slot is populated, the overlay shown and the main window
\* hidden
C16_Witness ==
    \E p, q \in Threads :
        /\ Returned(p, "log", "ok")
        /\ Returned(q, "capture", "ok")
        /\ SNIP_STATE # None
        /\ overlay = "visible"
        /\ ~main_visible

\* What start_snip can return
StartResults ==
    { "ok", "capture error", "overlay build error", "overlay show error",
      "Overlay window missing" }

\* C17: the hide step of start_snip goes on to the capture whether or not
\* the main window was hidden, and returns nothing; start_snip then stores
\* under the lock the capture it made, and it returns no error other than
\* those of the capture, the overlay build and the overlay show.
C17_HideFailureNotFatal ==
    [][\A p \in Threads :
          /\ Steps(p, "s_hide") =>
                /\ pc'[p] = "s_capture"
                /\ ret'[p] = ret[p]
                /\ "main.hide" \in calls'[p].asked
          /\ (Steps(p, "s_capture") /\ pc'[p] # "idle") =>
                (pc'[p] = "s_put" /\ local'[p].id = nextId)
          /\ Returns(p, "start") => ret'[p].res \in StartResults]_vars

\* A lone start_snip has returned success with the main window still
\* visible: its hide failed, and its capture is stored and its overlay shown
C17_Witness ==
    \E p \in Threads :
        /\ Returned(p, "start", "ok")
        /\ \A q \in Threads \ {p} : ret[q].op = "none"
        /\ main_visible
        /\ SNIP_STATE # None
        /\ SNIP_STATE.id = 1
        /\ overlay = "visible"

\* C18: when finish_snip has cropped the W x H snip it took to the
\* rectangle (sx, sy, sw, sh), the snip has W*H*4 bytes, row i of the
\* output is the source bytes from ((sy+i)*W + sx)*4 up to, not
\* including, ((sy+i)*W + sx + sw)*4, each such range ends inside the
\* source, and the output has sw*sh*4 bytes.
C18_CropUsesSourceStride ==
    [][\A p \in Threads :
          Steps(p, "f_encode") =>
             LET snip == local[p].snip
                 r == local[p].rect
                 W == snip.width
                 H == snip.height
             IN /\ Len(snip.image) = W * H * 4
                /\ pc'[p] = "f_emit"
                /\ LET out == local'[p].data_url.png.data
                   IN /\ Len(out) = r.sw * r.sh * 4
                      /\ \A i \in 0 .. (r.sh - 1) :
                            LET from == ((r.sy + i) * W + r.sx) * 4
                                to == ((r.sy + i) * W + r.sx + r.sw) * 4
                            IN /\ 0 <= from /\ from < to
                               /\ to <= Len(snip.image)
                               /\ SubSeq(out, i * r.sw * 4 + 1,
                                         (i + 1) * r.sw * 4)
                                     = SubSeq(snip.image, from + 1, to)]_vars

\* A crop of two rows, one pixel wide, at column 1 of a snip two pixels
\* wide has been copied: its rows are not adjacent in the source
C18_Witness ==
    \E p \in Threads :
        /\ pc[p] = "f_emit"
        /\ local[p].snip.width = 2
        /\ local[p].rect.sx = 1
        /\ local[p].rect.sw = 1
        /\ local[p].rect.sh = 2
        /\ Len(local[p].data_url.png.data) = 8

\* The results of finish_snip for a selection it rejects
SelectionErrors == { "Invalid selection", "Selection too small" }

\* C19: a finish_snip that finds a snip in the slot and rejects the
\* selection has emptied the slot all the same: the snip is gone for good.
\* While the last access to the slot was that take (no start_snip has
\* stored since), a get_snip_image and a finish_snip, whatever its
\* selection, return "No snip state".
C19_RejectedFinishConsumes ==
    [][\A p \in Threads :
          /\ (Steps(p, "f_lock") /\ SNIP_STATE # None
                /\ ret'[p].res \in SelectionErrors) =>
                /\ pc'[p] = "idle"
                /\ SNIP_STATE' = None
                /\ SNIP_STATE.id \in gone'
                /\ lastSlotOp' = "take"
                /\ lockHolder' = "free"
          /\ (lastSlotOp = "take" /\ pc[p] \in {"q_lock", "f_lock"}
                /\ pc'[p] # pc[p]) =>
                /\ SNIP_STATE = None
                /\ pc'[p] = "idle"
                /\ ret'[p].res = "No snip state"]_vars

\* The only capture was taken by a finish_snip that rejected its selection
\* as too small, and a get_snip_image has since found nothing
C19_Witness ==
    \E p, q \in Threads :
        /\ Returned(p, "finish", "Selection too small")
        /\ Returned(q, "query", "No snip state")
        /\ nextId = 2
        /\ gone = {1}
        /\ lastSlotOp = "take"

\* Thread p is the only one that ever ran a command
Alone(p) == \A q \in Threads \ {p} : ret[q].op = "none"

\* C20: when the only thread that ever ran a command has returned success
\* from cancel_snip (its emit succeeded), the slot is empty, no overlay
\* exists and the main window is visible; and when it has returned an
\* error from cancel_snip, the slot is empty.
C20_CancelLeavesIdle ==
    \A p \in Threads :
        (Alone(p) /\ pc[p] = "idle" /\ ret[p].op = "cancel") =>
           /\ SNIP_STATE = None
           /\ ret[p].res = "ok" => (overlay = "absent" /\ main_visible)

\* C20, amended: the first step of cancel_snip empties the slot, so the
\* slot is empty when the only thread that ever ran a command returns
\* from cancel_snip, with success or with an error.  Its next step leaves
\* no overlay, unless it asked the overlay to close and the close failed.
\* When the emit succeeds, its last step leaves the main window visible,
\* unless it asked the main window to show and the show failed, and
\* returns success; when the emit fails, cancel_snip returns the error.
C20_CancelClearsAndAsks ==
    /\ [](\A p \in Threads :
             (Alone(p) /\ pc[p] \in {"c_close", "c_emit", "c_show", "idle"}
                /\ ret[p].op = "cancel") => SNIP_STATE = None)
    /\ [][\A p \in Threads :
            /\ Steps(p, "c_clear") =>
                  /\ SNIP_STATE' = None
                  /\ pc'[p] = "c_close"
                  /\ SNIP_STATE # None => SNIP_STATE.id \in gone'
            /\ Steps(p, "c_close") =>
                  /\ pc'[p] = "c_emit"
                  /\ \/ overlay' = "absent"
                     \/ /\ "overlay.close" \in calls'[p].asked
                        /\ overlay' = overlay
            /\ Steps(p, "c_emit") =>
                  \/ /\ pc'[p] = "c_show"
                     /\ "emit snip-cancel" \in calls'[p].asked
                  \/ /\ pc'[p] = "idle"
                     /\ ret'[p].res = "emit error"
                     /\ "emit snip-cancel" \notin calls'[p].asked
            /\ Steps(p, "c_show") =>
                  /\ pc'[p] = "idle"
                  /\ ret'[p].res = "ok"
                  /\ {"main.show", "main.set_focus"} \subseteq calls'[p].asked
                  /\ main_visible => main_visible'
                  /\ overlay' = overlay
                  /\ SNIP_STATE' = SNIP_STATE]_vars

\* A lone cancel_snip has cleared a capture that no finish_snip took,
\* closed the overlay of the start_snip before it and returned success
\* with the main window visible: the system is idle again
C20_Witness ==
    \E p \in Threads :
        /\ Alone(p)
        /\ Returned(p, "cancel", "ok")
        /\ gone = {1}
        /\ DOMAIN takes = {}
        /\ "overlay.close" \in calls[p].asked
        /\ SNIP_STATE = None
        /\ overlay = "absent"
        /\ main_visible
====
